---- MODULE Spec2Model ----
(***************************************************************************)
(* ProcessNotesWithGemini.ps1 (the batch ingestion script embedded in      *)
(* README.md): load the existing notes, walk the .txt files, ask the       *)
(* classifier, ask the generator, complete the note, append it, save.      *)
(*                                                                         *)
(* Strings are sequences of one-character strings.  A note is a record     *)
(* whose field "has" is the set of property names the object carries; a    *)
(* property that is not in "has" holds a fixed filler value.               *)
(* Semantics are those of Windows PowerShell 5.1 (#Requires -Version 5.1). *)
(***************************************************************************)
EXTENDS Integers, Sequences, FiniteSets, TLC

VARIABLES
    pc,                   \* position in the script
    exitCode,             \* -1 while running, else the completion status
    outFile,              \* the file at $OutputJsonFile: [k, items]
    priorFile,            \* the file at $OutputJsonFile when the run started
    allNotes,             \* $allNotes
    loadedCount,          \* number of notes $allNotes held after the load step
    nextId,               \* $nextId
    initialNextId,        \* the value $nextId was initialised to
    currentOrder,         \* $currentOrder
    fileCount,            \* $txtFiles.Count
    processedCount,       \* $processedCount
    addedCount,           \* $addedCount
    file,                 \* the current $file with its content
    attempt,              \* $attempt of the running Invoke-GeminiApi call
    requests,             \* requests sent for the current file
    classificationResult, \* $classificationResult: [has, s]
    response2,            \* the answer to the generation request: [k, s]
    outcome,              \* the message the current file ended with
    before,               \* the counters as they were when the current file began
    saveStatus,           \* what the save step did
    writes,               \* number of times the output file was written
    folder,               \* what the test of $FolderPath found
    failure               \* the failure the last attempt of the running call met

vars == <<pc, exitCode, outFile, priorFile, allNotes, loadedCount, nextId, initialNextId,
          currentOrder, fileCount, processedCount, addedCount, file, attempt,
          requests, classificationResult, response2, outcome, before,
          saveStatus, writes, folder, failure>>

-----------------------------------------------------------------------------
(* Bounds of the model *)

MaxFiles == 2         \* most .txt files one run discovers
MaxLoaded == 2        \* most notes the prior output file holds
MaxVerdictLen == 4    \* longest verdict text tried on the classification gate

(* Program constants *)

maxRetries == 2
FirstWords == 5
FirstId == 1
FirstOrder == 0

-----------------------------------------------------------------------------
(* Strings *)

Whitespace == {" ", "\n", "\t"}

\* a variant that tests for the empty string only
IsBlankStr_EmptyOnly(s) == s = <<>>

\* [string]::IsNullOrWhiteSpace on a string that is not $null
IsBlankStr(s) == \A i \in 1..Len(s) : s[i] \in Whitespace

RECURSIVE TrimStart(_)
TrimStart(s) ==
    IF s # <<>> /\ Head(s) \in Whitespace THEN TrimStart(Tail(s)) ELSE s

RECURSIVE TrimEnd(_)
TrimEnd(s) ==
    IF s # <<>> /\ s[Len(s)] \in Whitespace
    THEN TrimEnd(SubSeq(s, 1, Len(s) - 1))
    ELSE s

\* String.Trim()
Trim(s) == TrimEnd(TrimStart(s))

LowerOf(c) ==
    CASE c = "Y" -> "y"
      [] c = "E" -> "e"
      [] c = "S" -> "s"
      [] c = "N" -> "n"
      [] c = "O" -> "o"
      [] OTHER -> c

ToLower(s) == [i \in 1..Len(s) |-> LowerOf(s[i])]

\* a variant that compares case-sensitively (-clike)
LikeYesStar_CaseSensitive(s) ==
    Len(s) >= 3 /\ SubSeq(s, 1, 3) = <<"Y", "e", "s">>

\* $s -like 'Yes*' : case-insensitive wildcard match, * matches any tail
LikeYesStar(s) ==
    /\ Len(s) >= 3
    /\ ToLower(SubSeq(s, 1, 3)) = <<"y", "e", "s">>

\* $s -replace '[-_]', ' '
ReplaceSeparators(s) ==
    [i \in 1..Len(s) |-> IF s[i] \in {"-", "_"} THEN " " ELSE s[i]]

\* $s -split '\s+' : a leading or trailing run of whitespace yields an empty token
SplitWhitespace(s) ==
    LET F[i \in 0..Len(s)] ==
            IF i = 0 THEN [toks |-> <<>>, cur |-> <<>>]
            ELSE LET p == F[i - 1] IN
                 IF s[i] \in Whitespace
                 THEN IF i > 1 /\ s[i - 1] \in Whitespace
                      THEN p
                      ELSE [toks |-> Append(p.toks, p.cur), cur |-> <<>>]
                 ELSE [toks |-> p.toks, cur |-> Append(p.cur, s[i])]
    IN  Append(F[Len(s)].toks, F[Len(s)].cur)

\* Select-Object -First n
FirstN(q, n) == SubSeq(q, 1, IF Len(q) < n THEN Len(q) ELSE n)

\* $tokens -join ' '
RECURSIVE JoinSpace(_)
JoinSpace(q) ==
    IF q = <<>> THEN <<>>
    ELSE IF Len(q) = 1 THEN q[1]
    ELSE q[1] \o <<" ">> \o JoinSpace(Tail(q))

DigitChar(d) == <<"0", "1", "2", "3", "4", "5", "6", "7", "8", "9">>[d + 1]

\* the decimal text of a non-negative integer, as "$nextId" interpolates it
RECURSIVE Digits(_)
Digits(n) ==
    IF n < 10 THEN <<DigitChar(n)>>
    ELSE Append(Digits(n \div 10), DigitChar(n % 10))

-----------------------------------------------------------------------------
(* Notes *)

FieldNames ==
    {"id", "createdAt", "title", "text", "status", "priority", "isPrivate",
     "order", "dueDate"}

\* an id is a JSON integer (k = "int", n) or a JSON string that is no number
\* (k = "text", s)
IntId(n) == [k |-> "int", n |-> n, s |-> <<>>]
TextId(s) == [k |-> "text", n |-> 0, s |-> s]

\* an object with no property at all
NoFields ==
    [has |-> {}, id |-> IntId(0), createdAt |-> "", title |-> <<>>,
     text |-> <<>>, status |-> "", priority |-> "", isPrivate |-> FALSE,
     order |-> 0, dueDate |-> ""]

\* $o.PSObject.Properties.Name.Contains($name)
HasProperty(o, name) == name \in o.has

\* a variant without -Force: a member the object has keeps its value
AddMemberForce_KeepsExisting(o, name, value) ==
    IF name \in o.has THEN o
    ELSE [[o EXCEPT ![name] = value] EXCEPT !.has = @ \cup {name}]

\* $o | Add-Member -MemberType NoteProperty -Name $name -Value $value -Force
AddMemberForce(o, name, value) ==
    [[o EXCEPT ![name] = value] EXCEPT !.has = @ \cup {name}]

\* a variant that never adds the member
AddMember_Never(o, name, value) == o

\* Add-Member without -Force: an existing member is kept (non-terminating error)
AddMember(o, name, value) ==
    IF name \in o.has THEN o ELSE AddMemberForce(o, name, value)

\* the text -match sees for an id
IdText(id) ==
    IF id.k = "int"
    THEN IF id.n < 0 THEN <<"-">> \o Digits(0 - id.n) ELSE Digits(id.n)
    ELSE id.s

DigitChars == {"0", "1", "2", "3", "4", "5", "6", "7", "8", "9"}

\* $_.id -match '^\d+$'  ($null -match ... is false)
IdMatchesDigits(o) ==
    /\ HasProperty(o, "id")
    /\ LET t == IdText(o.id) IN
        /\ Len(t) > 0
        /\ \A i \in 1..Len(t) : t[i] \in DigitChars

\* the number Measure-Object reads from an id that passed the filter
IdNumber(o) == o.id.n

\* (... | Measure-Object -Property id -Maximum).Maximum ; with nothing to
\* measure there is no maximum, and $null counts as 0 in $null + 1
MeasureMaximum(S) ==
    IF S = {} THEN 0 ELSE CHOOSE m \in S : \A x \in S : x <= m

\* a variant that counts the notes instead of reading their ids
ComputeNextId_ByCount(notes) == Len(notes) + 1

\* lines 199-204
ComputeNextId(notes) ==
    IF Len(notes) > 0
    THEN MeasureMaximum({IdNumber(notes[i]) :
            i \in {j \in 1..Len(notes) : IdMatchesDigits(notes[j])}}) + 1
    ELSE FirstId

-----------------------------------------------------------------------------
(* The output file and its JSON text *)

AbsentFile == [k |-> "absent", items |-> <<>>]

\* a variant that writes the first note only
ConvertToJson_FirstOnly(notes) ==
    IF Len(notes) = 0 THEN [k |-> "blank", items |-> <<>>]
    ELSE [k |-> "object", items |-> <<notes[1]>>]

\* ConvertTo-Json at the end of a pipeline: one object is written as an object,
\* two or more as an array, none as nothing
ConvertToJson(notes) ==
    IF Len(notes) = 1 THEN [k |-> "object", items |-> notes]
    ELSE IF Len(notes) = 0 THEN [k |-> "blank", items |-> <<>>]
    ELSE [k |-> "array", items |-> notes]

\* a variant that takes text it cannot parse for one empty note
LoadedFrom_Lenient(f) ==
    IF f.k \in {"array", "object"} THEN f.items ELSE <<NoFields>>

\* lines 172-192: what the load step leaves in $allNotes for a file that
\* exists; a file Get-Content cannot read and text ConvertFrom-Json rejects
\* end in the catch of lines 189-192
LoadedFrom(f) ==
    CASE f.k = "array" -> f.items
      [] f.k = "object" -> f.items
      [] OTHER -> <<>>

\* Sort-Object -Property id: a missing id first, then integers by value, then
\* text that is no number
IdRank(o) ==
    IF ~HasProperty(o, "id") THEN 0 ELSE IF o.id.k = "int" THEN 1 ELSE 2

IdLessEq(a, b) ==
    \/ IdRank(a) < IdRank(b)
    \/ /\ IdRank(a) = IdRank(b)
       /\ IdRank(a) = 1 => a.id.n <= b.id.n

RemoveAt(q, i) == SubSeq(q, 1, i - 1) \o SubSeq(q, i + 1, Len(q))

\* the orders Sort-Object may produce (it does not promise to keep ties in place)
RECURSIVE SortedById(_)
SortedById(q) ==
    IF q = <<>> THEN {<<>>}
    ELSE UNION {{<<q[i]>> \o r : r \in SortedById(RemoveAt(q, i))} :
                   i \in {j \in 1..Len(q) :
                             \A m \in 1..Len(q) : IdLessEq(q[j], q[m])}}

-----------------------------------------------------------------------------
(* The generator's answer: a text made of tokens (an opening json fence, a *)
(* bare fence, whitespace, other text, a JSON value)                      *)

Token(t) == [t |-> t, k |-> "", items |-> <<>>]
FenceJson == Token("fence_json")
Fence == Token("fence")
Space == Token("ws")
Junk == Token("junk")
JsonObject(o) == [t |-> "json", k |-> "object", items |-> <<o>>]
JsonArray(q) == [t |-> "json", k |-> "array", items |-> q]

RECURSIVE DropSpaceStart(_)
DropSpaceStart(q) ==
    IF q # <<>> /\ Head(q) = Space THEN DropSpaceStart(Tail(q)) ELSE q

RECURSIVE DropSpaceEnd(_)
DropSpaceEnd(q) ==
    IF q # <<>> /\ q[Len(q)] = Space
    THEN DropSpaceEnd(SubSeq(q, 1, Len(q) - 1))
    ELSE q

\* String.Trim() on a text of tokens
TrimTokens(q) == DropSpaceEnd(DropSpaceStart(q))

\* [string]::IsNullOrWhiteSpace on a text of tokens
IsBlankTokens(q) == \A i \in 1..Len(q) : q[i] = Space

\* the first -replace of line 361: an opening json fence at the start, with the
\* whitespace around it
StripLeadingFence(q) ==
    LET r == DropSpaceStart(q) IN
    IF r # <<>> /\ Head(r) = FenceJson THEN DropSpaceStart(Tail(r)) ELSE q

\* the second -replace of line 361: a closing fence at the end, with the
\* whitespace around it
StripTrailingFence(q) ==
    LET r == DropSpaceEnd(q) IN
    IF r # <<>> /\ r[Len(r)] = Fence
    THEN DropSpaceEnd(SubSeq(r, 1, Len(r) - 1))
    ELSE q

\* line 361
StripFences(q) == StripTrailingFence(StripLeadingFence(q))

\* a variant that looks for a JSON value anywhere in the text
Parses_Lenient(q) == \E i \in 1..Len(q) : q[i].t = "json"

\* ConvertFrom-Json -ErrorAction Stop: the text parses when it is one JSON
\* value with nothing but whitespace around it
Parses(q) == Len(TrimTokens(q)) = 1 /\ TrimTokens(q)[1].t = "json"
ParsedValue(q) == TrimTokens(q)[1]

-----------------------------------------------------------------------------
(* Completing a parsed object: lines 370-410 *)

NoteWord == <<"N", "o", "t", "e", " ">>

\* lines 380-388
FallbackTitle(f, id) ==
    LET byName == ReplaceSeparators(f.baseName)
        byText == JoinSpace(FirstN(SplitWhitespace(f.content), FirstWords))
    IN  IF ~IsBlankStr(byName) THEN byName
        ELSE IF ~IsBlankStr(byText) THEN byText
        ELSE NoteWord \o Digits(id)

\* o is the object the members are added to; c is the value of $jsonObject,
\* whose property names the Contains tests read
Complete(o, c, f, id, ord) ==
    LET o1 == AddMemberForce(o, "id", IntId(id))
        o2 == AddMemberForce(o1, "createdAt", f.date)
        o3 == IF ~HasProperty(c, "text")
              THEN AddMember(o2, "text", f.content) ELSE o2
        o4 == IF ~HasProperty(c, "title") \/ IsBlankStr(c.title)
              THEN AddMemberForce(o3, "title", FallbackTitle(f, id)) ELSE o3
        o5 == IF ~HasProperty(c, "status")
              THEN AddMemberForce(o4, "status", "Open") ELSE o4
        o6 == IF ~HasProperty(c, "priority")
              THEN AddMemberForce(o5, "priority", "Medium") ELSE o5
        o7 == IF ~HasProperty(c, "isPrivate")
              THEN AddMemberForce(o6, "isPrivate", FALSE) ELSE o6
    IN  AddMemberForce(o7, "order", ord)

\* what lines 370-417 append to $allNotes for a parsed JSON value v.  For an
\* object: the completed object.  For an array, $jsonObject | Add-Member
\* reaches every element, the property names read are the array's own (none
\* of the note's), and += appends every element.
CompletedNotes(v, f, id, ord) ==
    IF v.k = "object"
    THEN <<Complete(v.items[1], v.items[1], f, id, ord)>>
    ELSE [i \in 1..Len(v.items) |-> Complete(v.items[i], NoFields, f, id, ord)]

-----------------------------------------------------------------------------
(* The inputs of a run *)

Str_ab == <<"a", "b">>

\* the notes of the prior output file: one carrying a title only, one with
\* an id that is text, and complete notes with an integer id
FullNote(order) ==
    [has |-> FieldNames \ {"id"}, id |-> IntId(0), createdAt |-> "old",
     title |-> <<"o">>, text |-> <<"t">>, status |-> "Open", priority |-> "Low",
     isPrivate |-> FALSE, order |-> order, dueDate |-> "due"]

BareNote == [NoFields EXCEPT !.has = {"title"}, !.title = <<"o">>]

LoadedNotes ==
    {BareNote, AddMemberForce(BareNote, "id", TextId(Str_ab))} \cup
    {AddMemberForce(FullNote(n + 1), "id", IntId(n)) : n \in {0 - 1, 0, 1}}

SeqsUpTo(S, n) == UNION {[1..m -> S] : m \in 0..n}

\* what may be at $OutputJsonFile when the run starts: nothing, a file that
\* Get-Content cannot read, a file with no text, with text that is no JSON,
\* with the JSON value null, with one JSON object, with a JSON array
PriorFiles ==
    {AbsentFile} \cup
    {[k |-> kind, items |-> <<>>] :
        kind \in {"unreadable", "blank", "malformed", "null"}} \cup
    {[k |-> "object", items |-> <<o>>] : o \in LoadedNotes} \cup
    {[k |-> "array", items |-> q] : q \in SeqsUpTo(LoadedNotes, MaxLoaded)}

NoFile == [baseName |-> <<>>, content |-> <<>>, date |-> "", readable |-> FALSE]

\* the .txt files a run may meet: BaseName, content (Get-Content -Raw),
\* LastWriteTime, and whether Get-Content succeeds
Files ==
    {[baseName |-> <<"m", "-", "n">>, content |-> <<"h", "i", " ", "x">>,
      date |-> "d1", readable |-> TRUE],
     [baseName |-> <<"w">>, content |-> <<" ", "\n">>, date |-> "d3",
      readable |-> TRUE],
     [baseName |-> <<"u">>, content |-> <<"z">>, date |-> "d3",
      readable |-> FALSE]}

\* the answer of one request: no response object, a response without text,
\* or a response with text
NullResponse == [k |-> "null", s |-> <<>>]
NoTextResponse == [k |-> "notext", s |-> <<>>]
TextResponse(s) == [k |-> "text", s |-> s]

Verdicts ==
    {<<"Y", "e", "s">>, <<" ", "Y", "e", "s", "\n">>, <<"N", "o">>, <<" ">>}

ClassifyResponses ==
    {NullResponse, NoTextResponse} \cup {TextResponse(s) : s \in Verdicts}

PEmpty == NoFields

PFull ==
    [has |-> FieldNames, id |-> IntId(FirstId), createdAt |-> "gen",
     title |-> <<"T">>, text |-> <<"b">>, status |-> "Closed",
     priority |-> "High", isPrivate |-> TRUE, order |-> 7,
     dueDate |-> "due"]

PayloadObjects == {PEmpty, PFull}

PayloadArrays == {<<PEmpty, PFull>>}

GeneratedTexts ==
    {<<>>, <<Space>>, <<Junk>>} \cup
    {<<JsonObject(o)>> : o \in PayloadObjects} \cup
    {<<JsonArray(q)>> : q \in PayloadArrays} \cup
    {<<FenceJson, Space, JsonObject(PFull), Space, Fence>>,
     <<Fence, Space, JsonObject(PFull), Space, Fence>>,
     <<FenceJson, Fence>>}

GenerateResponses ==
    {NullResponse, NoTextResponse} \cup {TextResponse(s) : s \in GeneratedTexts}

-----------------------------------------------------------------------------
(* The script *)

NullText == [has |-> FALSE, s |-> <<>>]

Counters ==
    [nextId |-> nextId, currentOrder |-> currentOrder,
     addedCount |-> addedCount, count |-> Len(allNotes)]

Init ==
    /\ pc = "start"
    /\ exitCode = 0 - 1
    /\ outFile \in PriorFiles
    /\ priorFile = outFile
    /\ allNotes = <<>>
    /\ loadedCount = 0
    /\ nextId = 0
    /\ initialNextId = 0
    /\ currentOrder = 0
    /\ fileCount = 0
    /\ processedCount = 0
    /\ addedCount = 0
    /\ file = NoFile
    /\ attempt = 0
    /\ requests = 0
    /\ classificationResult = NullText
    /\ response2 = NullResponse
    /\ outcome = "none"
    /\ before = [nextId |-> 0, currentOrder |-> 0, addedCount |-> 0, count |-> 0]
    /\ saveStatus = "none"
    /\ writes = 0
    /\ folder = "unchecked"
    /\ failure = "none"

\* lines 161-165
CheckFolder ==
    /\ pc = "start"
    /\ \E exists \in BOOLEAN :
        IF exists
        THEN pc' = "load" /\ folder' = "found" /\ UNCHANGED exitCode
        ELSE pc' = "exit" /\ folder' = "missing" /\ exitCode' = 1
    /\ UNCHANGED <<failure, priorFile, response2, outFile, allNotes, loadedCount, nextId, initialNextId,
                   currentOrder, fileCount, processedCount, addedCount, file,
                   attempt, requests, classificationResult, outcome, before,
                   saveStatus, writes>>

\* lines 167-196
LoadNotes ==
    /\ pc = "load"
    /\ allNotes' = IF outFile.k # "absent" THEN LoadedFrom(outFile) ELSE <<>>
    /\ loadedCount' = Len(allNotes')
    /\ pc' = "init"
    /\ UNCHANGED <<folder, failure, priorFile, response2, exitCode, outFile, nextId, initialNextId, currentOrder,
                   fileCount, processedCount, addedCount, file, attempt,
                   requests, classificationResult, outcome, before, saveStatus,
                   writes>>

\* lines 198-212
InitCounters ==
    /\ pc = "init"
    /\ nextId' = ComputeNextId(allNotes)
    /\ initialNextId' = nextId'
    /\ currentOrder' = FirstOrder
    /\ pc' = "scan"
    /\ UNCHANGED <<folder, failure, priorFile, response2, exitCode, outFile, allNotes, loadedCount, fileCount,
                   processedCount, addedCount, file, attempt, requests,
                   classificationResult, outcome, before, saveStatus, writes>>

\* lines 215-226
FindFiles ==
    /\ pc = "scan"
    /\ \E n \in 0..MaxFiles :
        /\ fileCount' = n
        /\ IF n = 0
           THEN pc' = "exit" /\ exitCode' = 0
           ELSE pc' = "loop" /\ UNCHANGED exitCode
    /\ processedCount' = 0
    /\ addedCount' = 0
    /\ UNCHANGED <<folder, failure, priorFile, response2, outFile, allNotes, loadedCount, nextId, initialNextId,
                   currentOrder, file, attempt, requests, classificationResult,
                   outcome, before, saveStatus, writes>>

\* a variant in which an exception ends the run
AfterCatch_Stops == "exit"

\* lines 441-449: the catch block of the loop body logs the exception and
\* falls through to the next iteration of foreach
AfterCatch == "loop"

\* lines 228-242, and 441-445 when Get-Content throws
BeginFile ==
    /\ pc = "loop"
    /\ processedCount < fileCount
    /\ processedCount' = processedCount + 1
    /\ \E f \in Files :
        /\ file' = f
        /\ IF ~f.readable THEN outcome' = "error" /\ pc' = AfterCatch
           ELSE IF IsBlankStr(f.content) THEN outcome' = "empty" /\ pc' = "loop"
           ELSE outcome' = "none" /\ pc' = "classify"
    /\ attempt' = 0
    /\ requests' = 0
    /\ classificationResult' = NullText
    /\ response2' = NullResponse
    /\ before' = Counters
    /\ failure' = "none"
    /\ UNCHANGED <<folder, priorFile, exitCode, outFile, allNotes, loadedCount, nextId,
                   initialNextId, currentOrder, fileCount, addedCount,
                   saveStatus, writes>>

\* the ways one attempt of Invoke-RestMethod fails: a WebException with status
\* 429, with a status 500..599, with another status or with no response at
\* all, and an exception that is no WebException
FailureKinds == {"rate_limit", "server", "client", "other"}

\* a variant that never gives up
RetriesAfter_Always(kind, n) == TRUE

\* Invoke-GeminiApi, lines 120-151: does a failed attempt of this kind, the
\* n-th of the call, lead to another attempt?  The enumeration HttpStatusCode
\* of the .NET Framework, on which Windows PowerShell 5.1 runs, has no member
\* TooManyRequests: the name reads as $null, the status 429 equals neither
\* $null nor a value of 500..599, and line 129 sends it to the branch of
\* lines 137-140.
RetriesAfter(kind, n) ==
    CASE kind = "server" -> n < maxRetries
      [] kind = "rate_limit" -> FALSE
      [] kind = "client" -> FALSE
      [] OTHER -> n < maxRetries

\* one failed attempt of Invoke-GeminiApi (lines 113-151); the exception it
\* throws in the end is caught at lines 441-445
ApiAttemptFails ==
    /\ pc \in {"classify", "generate"}
    /\ attempt < maxRetries
    /\ attempt' = attempt + 1
    /\ requests' = requests + 1
    /\ \E kind \in FailureKinds :
        /\ failure' = kind
        /\ IF RetriesAfter(kind, attempt')
           THEN UNCHANGED <<pc, outcome>>
           ELSE pc' = AfterCatch /\ outcome' = "error"
    /\ UNCHANGED <<folder, priorFile, response2, exitCode, outFile, allNotes, loadedCount, nextId,
                   initialNextId, currentOrder, fileCount, processedCount,
                   addedCount, file, classificationResult, before, saveStatus,
                   writes>>

\* a variant that lets every verdict through
GateAccepts_Always(verdict) == TRUE

\* a variant that lets a missing verdict through
GateAccepts_FailOpen(verdict) == ~verdict.has \/ LikeYesStar(verdict.s)

\* line 292
GateAccepts(verdict) == verdict.has /\ LikeYesStar(verdict.s)

\* lines 272-282
ExtractText(r) ==
    IF r.k = "text" THEN [has |-> TRUE, s |-> Trim(r.s)] ELSE NullText

\* the classification request answers with one of Responses: lines 270-293
\* and 437-439
ClassifyAnswersFrom(Responses) ==
    /\ pc = "classify"
    /\ attempt < maxRetries
    /\ requests' = requests + 1
    /\ \E r \in Responses :
        /\ classificationResult' = ExtractText(r)
        /\ IF r.k = "null"
           THEN pc' = "loop" /\ outcome' = "classify_failed"
           ELSE IF GateAccepts(classificationResult')
           THEN pc' = "generate" /\ outcome' = "none"
           ELSE pc' = "loop" /\ outcome' = "not_a_note"
    /\ attempt' = 0
    /\ failure' = "none"
    /\ UNCHANGED <<folder, priorFile, response2, exitCode, outFile, allNotes, loadedCount, nextId,
                   initialNextId, currentOrder, fileCount, processedCount,
                   addedCount, file, before, saveStatus, writes>>

ClassifyAnswers == ClassifyAnswersFrom(ClassifyResponses)

\* lines 358-435 for the text the generator returned: the notes appended, or
\* <<>> with the reason when the file is skipped
Ingested(text, f, id, ord) ==
    IF ~text.has \/ IsBlankTokens(text.s)
    THEN [ok |-> FALSE, why |-> "no_content", notes |-> <<>>]
    ELSE IF ~Parses(StripFences(text.s))
    THEN [ok |-> FALSE, why |-> "parse_failed", notes |-> <<>>]
    ELSE [ok |-> TRUE, why |-> "added",
          notes |-> CompletedNotes(ParsedValue(StripFences(text.s)), f, id, ord)]

\* lines 341-351
ExtractTokens(r) ==
    IF r.k = "text" THEN [has |-> TRUE, s |-> TrimTokens(r.s)] ELSE NullText

\* the generation request answers with one of Responses: lines 339-435
GenerateAnswersFrom(Responses) ==
    /\ pc = "generate"
    /\ attempt < maxRetries
    /\ requests' = requests + 1
    /\ attempt' = 0
    /\ failure' = "none"
    /\ pc' = "loop"
    /\ \E r \in Responses :
        /\ response2' = r
        /\ IF r.k = "null"
           THEN /\ outcome' = "generate_failed"
                /\ UNCHANGED <<allNotes, addedCount, nextId, currentOrder>>
           ELSE LET res == Ingested(ExtractTokens(r), file, nextId, currentOrder)
                IN  /\ outcome' = res.why
                    /\ IF res.ok
                       THEN /\ allNotes' = allNotes \o res.notes
                            /\ addedCount' = addedCount + 1
                            /\ nextId' = nextId + 1
                            /\ currentOrder' = currentOrder + 1
                       ELSE UNCHANGED <<allNotes, addedCount, nextId,
                                        currentOrder>>
    /\ UNCHANGED <<folder, exitCode, outFile, priorFile, loadedCount, initialNextId,
                   fileCount, processedCount, file, classificationResult,
                   before, saveStatus, writes>>

GenerateAnswers == GenerateAnswersFrom(GenerateResponses)

EmptyArrayFile == [k |-> "array", items |-> <<>>]

\* a variant that lets the save step run between two inputs
PassOver_Anytime == TRUE

\* lines 228 and 449: foreach has taken every file of $txtFiles
PassOver == processedCount = fileCount

\* lines 451-472; Out-File may fail
SaveNotes ==
    /\ pc = "loop"
    /\ PassOver
    /\ \E written \in BOOLEAN :
        IF Len(allNotes) > 0
        THEN IF written
             THEN /\ \E sortedNotes \in SortedById(allNotes) :
                        outFile' = ConvertToJson(sortedNotes)
                  /\ saveStatus' = "saved"
                  /\ writes' = writes + 1
             ELSE /\ saveStatus' = "save_failed"
                  /\ UNCHANGED <<outFile, writes>>
        ELSE IF outFile.k = "absent"
             THEN IF written
                  THEN /\ outFile' = EmptyArrayFile
                       /\ saveStatus' = "created"
                       /\ writes' = writes + 1
                  ELSE /\ saveStatus' = "save_failed"
                       /\ UNCHANGED <<outFile, writes>>
             ELSE /\ saveStatus' = "left"
                  /\ UNCHANGED <<outFile, writes>>
    /\ pc' = "done"
    /\ exitCode' = 0
    /\ UNCHANGED <<folder, failure, priorFile, response2, allNotes, loadedCount, nextId,
                   initialNextId, currentOrder, fileCount, processedCount,
                   addedCount, file, attempt, requests, classificationResult,
                   outcome, before>>

Next ==
    \/ CheckFolder
    \/ LoadNotes
    \/ InitCounters
    \/ FindFiles
    \/ BeginFile
    \/ ApiAttemptFails
    \/ ClassifyAnswers
    \/ GenerateAnswers
    \/ SaveNotes

Spec == Init /\ [][Next]_vars

\* The run as one sequential process: it takes its next step whenever it has
\* one, and every request is answered or fails.  The run starts with no
\* output file or with one that holds a single complete note.
LiveInit ==
    /\ Init
    /\ outFile \in {AbsentFile,
                    [k |-> "array",
                     items |-> <<AddMemberForce(FullNote(0), "id", IntId(1))>>]}

LiveSpec == LiveInit /\ [][Next]_vars /\ WF_vars(Next)

-----------------------------------------------------------------------------
(* Vocabulary of the properties *)

\* the load step and the counter initialisation are over
CountersSet == pc \in {"scan", "loop", "classify", "generate", "done"}

LoadedPart == SubSeq(allNotes, 1, loadedCount)
AddedPart == SubSeq(allNotes, loadedCount + 1, Len(allNotes))

RequiredFields == {"id", "title", "text", "status", "priority", "isPrivate"}

\* the id is a JSON integer that is not negative
HasValidId(o) == "id" \in o.has /\ o.id.k = "int" /\ o.id.n >= 0

SameId(a, b) == "id" \in a.has /\ "id" \in b.has /\ a.id = b.id

CountersAsBefore ==
    /\ nextId = before.nextId
    /\ currentOrder = before.currentOrder
    /\ addedCount = before.addedCount
    /\ Len(allNotes) = before.count

-----------------------------------------------------------------------------
(* C1: the ids stamped on the notes a run adds are pairwise distinct and    *)
(* differ from the id of every loaded note.                                *)
C1_AddedIdsDistinct ==
    CountersSet =>
        /\ \A i, j \in 1..Len(AddedPart) :
              i # j => ~SameId(AddedPart[i], AddedPart[j])
        /\ \A i \in 1..Len(AddedPart) : \A j \in 1..Len(LoadedPart) :
              ~SameId(AddedPart[i], LoadedPart[j])

-----------------------------------------------------------------------------
(* C2: the initial nextId is 1 plus the largest valid id of the loaded     *)
(* notes, 1 when no loaded note has a valid id, and it is always computed. *)
C2_InitialNextId ==
    LET valid == {LoadedPart[i].id.n :
                     i \in {j \in 1..Len(LoadedPart) : HasValidId(LoadedPart[j])}}
    IN  /\ pc = "init" => ENABLED InitCounters
        /\ CountersSet =>
             /\ valid = {} => initialNextId = 1
             /\ valid # {} =>
                  /\ initialNextId - 1 \in valid
                  /\ \A n \in valid : n < initialNextId

\* two loaded notes, one with a valid id and one whose id is text: the text
\* is ignored
C2_Witness ==
    /\ pc = "scan"
    /\ loadedCount = 2
    /\ \E i, j \in 1..2 :
        /\ HasValidId(allNotes[i]) /\ allNotes[i].id.n = 1
        /\ "id" \in allNotes[j].has /\ allNotes[j].id.k = "text"
    /\ initialNextId = 2

-----------------------------------------------------------------------------
(* C3: the order counter starts at 0 whatever the loaded notes hold, and    *)
(* the k-th note added in the run carries order k-1.                       *)
C3_OrdersAreSequential ==
    CountersSet =>
        /\ currentOrder = Len(AddedPart)
        /\ \A k \in 1..Len(AddedPart) :
              "order" \in AddedPart[k].has /\ AddedPart[k].order = k - 1

-----------------------------------------------------------------------------
(* C4: what the save step writes is one JSON array, sorted ascending by id, *)
(* also for exactly one note and for no note.                              *)
C4_PersistedIsSortedArray ==
    saveStatus \in {"saved", "created"} =>
        /\ outFile.k = "array"
        /\ \A i, j \in 1..Len(outFile.items) :
              (i < j /\ HasValidId(outFile.items[i]) /\ HasValidId(outFile.items[j]))
                  => outFile.items[i].id.n <= outFile.items[j].id.n

-----------------------------------------------------------------------------
(* C5: a run that ends with an empty collection and found no output file   *)
(* leaves an output file holding an empty array, also when there was no    *)
(* input at all.                                                           *)
C5_EmptyArrayFileCreated ==
    ( /\ \/ pc = "exit" /\ exitCode = 0
         \/ pc = "done" /\ saveStatus # "save_failed"
      /\ Len(allNotes) = 0
      /\ priorFile.k = "absent" )
        => outFile = [k |-> "array", items |-> <<>>]

-----------------------------------------------------------------------------
(* C6 as stated: every persisted note, loaded or added, has the six        *)
(* required fields.                                                        *)
C6_EveryPersistedNoteComplete ==
    saveStatus = "saved" =>
        \A i \in 1..Len(outFile.items) : RequiredFields \subseteq outFile.items[i].has

IsLoadedNote(o) == \E j \in 1..loadedCount : allNotes[j] = o

(* C6 amended: every note added in the run has the six required fields, in *)
(* the collection and in the file written; loaded notes are not completed. *)
C6_AddedNotesComplete ==
    /\ CountersSet =>
          \A i \in 1..Len(AddedPart) : RequiredFields \subseteq AddedPart[i].has
    /\ saveStatus = "saved" =>
          \A i \in 1..Len(outFile.items) :
              \/ RequiredFields \subseteq outFile.items[i].has
              \/ IsLoadedNote(outFile.items[i])

\* the generator returned an object with no field at all; it was completed,
\* appended and saved
C6_Witness ==
    /\ saveStatus = "saved"
    /\ outcome = "added"
    /\ response2 = TextResponse(<<JsonObject(PEmpty)>>)
    /\ RequiredFields \subseteq allNotes[Len(allNotes)].has
    /\ allNotes[Len(allNotes)].status = "Open"

-----------------------------------------------------------------------------
StartsWithYes(s) ==
    /\ Len(s) >= 3
    /\ s[1] \in {"Y", "y"} /\ s[2] \in {"E", "e"} /\ s[3] \in {"S", "s"}

\* the classifier answered, and its verdict (after trimming) is no acceptance
VerdictRejects ==
    \/ outcome = "not_a_note"
    \/ classificationResult.has /\ ~StartsWithYes(classificationResult.s)

(* C7: after a rejecting verdict no note is appended for the input and     *)
(* nextId and currentOrder are what they were before the input.            *)
C7_RejectedInputChangesNothing ==
    VerdictRejects =>
        /\ Len(allNotes) = before.count
        /\ nextId = before.nextId
        /\ currentOrder = before.currentOrder

\* the second input is rejected after the first one was added
C7_Witness ==
    /\ outcome = "not_a_note"
    /\ classificationResult = [has |-> TRUE, s |-> <<"N", "o">>]
    /\ processedCount = 2
    /\ addedCount = 1
    /\ nextId = initialNextId + 1

-----------------------------------------------------------------------------
\* the text is one JSON value, with at most an opening json fence before it,
\* a closing fence after it, and whitespace anywhere between
UsableText(q) ==
    LET core == SelectSeq(q, LAMBDA t : t # Space) IN
    \E i \in 1..Len(core) :
        /\ core[i].t = "json"
        /\ i = 1 \/ (i = 2 /\ core[1] = FenceJson)
        /\ i = Len(core) \/ (i = Len(core) - 1 /\ core[Len(core)] = Fence)

GenerationAnswered ==
    outcome \in {"generate_failed", "no_content", "parse_failed", "added"}

\* the input was accepted and the generation request ended in an exception
GenerationFailed ==
    /\ outcome = "error"
    /\ classificationResult.has /\ StartsWithYes(classificationResult.s)

(* C8: when the generator's payload is absent, blank or not parsable after *)
(* fence stripping, the input is skipped: nothing is appended and nextId,  *)
(* currentOrder and the added count are unchanged.                         *)
C8_UnusablePayloadSkipped ==
    ( \/ GenerationAnswered /\ (response2.k # "text" \/ ~UsableText(response2.s))
      \/ GenerationFailed )
        => /\ outcome # "added"
           /\ CountersAsBefore

\* the second input's payload keeps a bare opening fence and does not parse;
\* the first input was added
C8_Witness ==
    /\ outcome = "parse_failed"
    /\ response2 = TextResponse(<<Fence, Space, JsonObject(PFull), Space, Fence>>)
    /\ processedCount = 2
    /\ addedCount = 1
    /\ nextId = initialNextId + 1

-----------------------------------------------------------------------------
(* C9: an input whose content is empty or whitespace only is skipped with   *)
(* no request sent, and nextId and currentOrder are unchanged.             *)
C9_BlankInputSkipped ==
    ( /\ pc \in {"loop", "classify", "generate", "done"}
      /\ processedCount > 0
      /\ file.readable
      /\ \A i \in 1..Len(file.content) : file.content[i] \in {" ", "\n", "\t"} )
        => /\ pc \notin {"classify", "generate"}
           /\ requests = 0
           /\ nextId = before.nextId
           /\ currentOrder = before.currentOrder
           /\ Len(allNotes) = before.count

\* the second input is whitespace only; the first one was added
C9_Witness ==
    /\ outcome = "empty"
    /\ file.content = <<" ", "\n">>
    /\ requests = 0
    /\ processedCount = 2
    /\ addedCount = 1

-----------------------------------------------------------------------------
(* The classification gate on its own: one readable file is waiting for    *)
(* its verdict, and the classifier may answer any short text.              *)

VerdictAlphabet == {"Y", "y", "E", "e", "S", "s", "t", ".", " "}

ShortVerdicts == UNION {[1..m -> VerdictAlphabet] : m \in 0..MaxVerdictLen}

GateResponses ==
    {NullResponse, NoTextResponse} \cup {TextResponse(s) : s \in ShortVerdicts}

GateInit ==
    /\ pc = "classify"
    /\ exitCode = 0 - 1
    /\ outFile = AbsentFile
    /\ priorFile = AbsentFile
    /\ allNotes = <<>>
    /\ loadedCount = 0
    /\ nextId = FirstId
    /\ initialNextId = FirstId
    /\ currentOrder = FirstOrder
    /\ fileCount = 1
    /\ processedCount = 1
    /\ addedCount = 0
    /\ file \in {f \in Files : f.readable /\ ~IsBlankStr(f.content)}
    /\ attempt = 0
    /\ requests = 0
    /\ classificationResult = NullText
    /\ response2 = NullResponse
    /\ outcome = "none"
    /\ before = [nextId |-> FirstId, currentOrder |-> FirstOrder,
                 addedCount |-> 0, count |-> 0]
    /\ saveStatus = "none"
    /\ writes = 0
    /\ folder = "found"
    /\ failure = "none"

GateAnswers == ClassifyAnswersFrom(GateResponses)

GateSpec == GateInit /\ [][GateAnswers]_vars

\* "Yes" as a token: the three letters in any case, then nothing, or a
\* punctuation mark or whitespace
IsYesToken(s) ==
    /\ StartsWithYes(s)
    /\ Len(s) = 3 \/ s[4] \in {".", ",", "!", " ", "\n", "\t"}

(* C10 as stated: the gate accepts exactly the verdicts (trimmed) that     *)
(* start with the token Yes; a longer word beginning y-e-s and an absent   *)
(* verdict are rejected.                                                   *)
C10_GateAcceptsYesToken ==
    pc # "classify" =>
        (pc = "generate" <=>
            (classificationResult.has /\ IsYesToken(classificationResult.s)))

(* C10 amended: the gate accepts exactly the verdicts whose trimmed text   *)
(* begins with the letters y-e-s in any case, whatever follows; an absent  *)
(* verdict is rejected.                                                    *)
C10_GateAcceptsYesPrefix ==
    pc # "classify" =>
        (pc = "generate" <=>
            (classificationResult.has /\ StartsWithYes(classificationResult.s)))

\* a verdict in mixed case with a full stop is accepted
C10_Witness ==
    /\ pc = "generate"
    /\ classificationResult = [has |-> TRUE, s |-> <<"y", "E", "s", ".">>]

-----------------------------------------------------------------------------
\* the current input ended in a failure: an unreadable file, a request that
\* threw or returned nothing, or a payload that did not parse
FailedInput ==
    /\ pc \notin {"classify", "generate"}
    /\ outcome \in {"error", "classify_failed", "generate_failed", "parse_failed"}

(* C11: a failure at any stage of one input does not abort the run: the    *)
(* run goes on to the next input in discovery order, every later input is  *)
(* processed, and the save step is reached.                                *)
C11_FailureDoesNotAbort ==
    /\ [](FailedInput => /\ pc \in {"loop", "done"}
                         /\ pc = "loop" => exitCode = 0 - 1
                         /\ pc = "loop" => (ENABLED BeginFile \/ ENABLED SaveNotes))
    /\ \A n \in 1..MaxFiles :
          (FailedInput /\ processedCount = n /\ n < fileCount)
              ~> (processedCount = n + 1)
    /\ FailedInput ~> (pc = "done" /\ processedCount = fileCount /\ saveStatus # "none")

\* the first of two inputs failed with a client error on its classification
\* request; the run is about to take the second input
C11_Witness ==
    /\ outcome = "error"
    /\ failure = "client"
    /\ pc = "loop"
    /\ processedCount = 1
    /\ fileCount = 2
    /\ ENABLED BeginFile

-----------------------------------------------------------------------------
\* there was no output file when the run started, or one that cannot be
\* read, or is empty or whitespace only, or holds no JSON
UnusablePriorFile ==
    priorFile.k \in {"absent", "unreadable", "blank", "malformed"}

(* C12: loading never fails the run: with an output file that is absent,   *)
(* blank or malformed the load step ends with an empty collection, nextId  *)
(* starts at 1, the status is not an error, and the inputs are processed.  *)
C12_LoadNeverFails ==
    /\ pc = "load" => ENABLED LoadNotes
    /\ (UnusablePriorFile /\ pc = "init") => allNotes = <<>> /\ ENABLED InitCounters
    /\ (UnusablePriorFile /\ pc = "scan") =>
          /\ allNotes = <<>>
          /\ nextId = 1
          /\ ENABLED FindFiles
    /\ (UnusablePriorFile /\ folder = "found" /\ pc \notin {"load", "init"}) =>
          /\ loadedCount = 0
          /\ initialNextId = 1
          /\ exitCode \in {0 - 1, 0}
          /\ pc = "exit" => fileCount = 0
          /\ (pc = "loop" /\ processedCount < fileCount) => ENABLED BeginFile

\* the output file held no JSON; the first input is with the classifier and
\* the next id is 1
C12_Witness ==
    /\ priorFile.k = "malformed"
    /\ pc = "classify"
    /\ processedCount = 1
    /\ allNotes = <<>>
    /\ nextId = 1

-----------------------------------------------------------------------------
\* how often the note o occurs in the sequence q
Occurrences(o, q) == Cardinality({i \in 1..Len(q) : q[i] = o})

NotesOf(q) == {q[i] : i \in 1..Len(q)}

(* C13: the notes loaded at the start of the run are the notes of the      *)
(* output file as they stood there; they stay in the collection unchanged  *)
(* for the whole run, the file that is saved holds every one of them as it *)
(* was, and a run that adds nothing saves the loaded notes and no other.   *)
C13_LoadedNotesKept ==
    /\ CountersSet =>
          /\ loadedCount <= Len(allNotes)
          /\ loadedCount \in {0, Len(priorFile.items)}
          /\ \A i \in 1..loadedCount : allNotes[i] = priorFile.items[i]
    /\ saveStatus = "saved" =>
          /\ \A i \in 1..loadedCount :
                Occurrences(priorFile.items[i], outFile.items)
                    >= Occurrences(priorFile.items[i], LoadedPart)
          /\ Len(allNotes) = loadedCount =>
                /\ NotesOf(outFile.items) = NotesOf(LoadedPart)
                /\ Len(outFile.items) = loadedCount

\* two loaded notes, one with nothing but a title, and one note added: the
\* file saved holds the two as they were
C13_Witness ==
    /\ saveStatus = "saved"
    /\ loadedCount = 2
    /\ addedCount = 1
    /\ priorFile.items[1] = BareNote
    /\ priorFile.items[2] # BareNote
    /\ Len(outFile.items) = 3
    /\ Occurrences(BareNote, outFile.items) = 1

-----------------------------------------------------------------------------
RunEnded == pc \in {"done", "exit"}

(* C14: the run ends with a non-zero completion status exactly when the    *)
(* source folder is missing or the save step failed; a failed input, a     *)
(* failed load and an empty input set end with status zero.                *)
C14_NonZeroExactlyOnRunError ==
    RunEnded =>
        (exitCode # 0 <=> (folder = "missing" \/ saveStatus = "save_failed"))

-----------------------------------------------------------------------------
\* the notes appended for the current input
NewNotes == SubSeq(allNotes, before.count + 1, Len(allNotes))

\* the note carries the id and the order the counters held and the date of
\* the file
StampedWith(o, id, ord, date) ==
    /\ {"id", "order", "createdAt"} \subseteq o.has
    /\ o.id.k = "int" /\ o.id.n = id
    /\ o.order = ord
    /\ o.createdAt = date

(* C15: every note added in the run carries the id and the order the       *)
(* counters held when it was appended and the createdAt of its input file, *)
(* whatever id, order or createdAt the payload held.                       *)
C15_StampedByPipeline ==
    /\ (outcome = "added" /\ pc \in {"loop", "done"}) =>
          \A i \in 1..Len(NewNotes) :
              StampedWith(NewNotes[i], before.nextId, before.currentOrder, file.date)
    /\ CountersSet =>
          \A i \in 1..Len(AddedPart) :
              /\ {"id", "order", "createdAt"} \subseteq AddedPart[i].has
              /\ AddedPart[i].id.k = "int"
              /\ AddedPart[i].id.n \in initialNextId..(nextId - 1)
              /\ AddedPart[i].order \in 0..(currentOrder - 1)
              /\ \E f \in Files : f.readable /\ AddedPart[i].createdAt = f.date

\* the payload came with id 1, order 7 and a createdAt of its own; the note
\* is the second of the run and carries id 2, order 1 and the file's date
C15_Witness ==
    /\ outcome = "added"
    /\ response2 = TextResponse(<<JsonObject(PFull)>>)
    /\ PFull.id.n = 1 /\ PFull.order = 7 /\ PFull.createdAt = "gen"
    /\ loadedCount = 0
    /\ before.nextId = 2
    /\ Len(NewNotes) = 1
    /\ StampedWith(NewNotes[1], 2, 1, "d1")

-----------------------------------------------------------------------------
\* a request of the current input ended in an exception that left the helper
CallFailed == outcome = "error" /\ file.readable /\ failure # "none"

\* the transient class of the specification: rate limit and server error
TransientFailures == {"rate_limit", "server"}

(* C16: a request that fails with a rate limit or a server error is tried  *)
(* again until MaxRetries attempts were made, and only then does the       *)
(* failure surface; a client error surfaces after one attempt; no call     *)
(* makes more than MaxRetries attempts.                                    *)
C16_RetryPolicy ==
    /\ attempt <= maxRetries
    /\ (CallFailed /\ failure \in TransientFailures) => attempt = maxRetries
    /\ (CallFailed /\ failure = "client") => attempt = 1
    /\ (pc \in {"classify", "generate"} /\ failure \in TransientFailures) =>
          attempt < maxRetries

-----------------------------------------------------------------------------
\* the classification of the current input is over and left no verdict: the
\* request threw, or no response came back, or a response without text
NoVerdict ==
    /\ requests > 0
    /\ ~classificationResult.has
    /\ pc # "classify"

(* C17: when the classification call fails for good, by an exception after *)
(* the retries or by an absent response, the input is rejected: no         *)
(* generation request is sent, no note is appended, the counters are as    *)
(* before, and the classification is not attempted again.                  *)
C17_FailedClassificationRejects ==
    NoVerdict =>
        /\ pc # "generate"
        /\ outcome \in {"error", "classify_failed", "not_a_note"}
        /\ response2.k = "null"
        /\ CountersAsBefore
        /\ requests <= maxRetries

\* the classification request of the second input failed with a server
\* error on each of its attempts; the first input was added
C17_Witness ==
    /\ outcome = "error"
    /\ failure = "server"
    /\ attempt = maxRetries
    /\ requests = maxRetries
    /\ ~classificationResult.has
    /\ processedCount = 2
    /\ addedCount = 1
    /\ nextId = initialNextId + 1

-----------------------------------------------------------------------------
(* C18: the output file is written at most once in a run, and only when    *)
(* every input has been processed; until then the file is what it was when *)
(* the run started, so it holds no note of the current run.                *)
C18_WrittenOnceAtEnd ==
    /\ writes <= 1
    /\ writes = 1 => (pc = "done" /\ processedCount = fileCount)
    /\ pc # "done" => (writes = 0 /\ outFile = priorFile)
    /\ outFile # priorFile => writes = 1

\* the first input was added and the second is with the classifier: the
\* file is still the one the run found
C18_Witness ==
    /\ pc = "classify"
    /\ processedCount = 2
    /\ addedCount = 1
    /\ Len(allNotes) = loadedCount + 1
    /\ writes = 0
    /\ outFile = priorFile

-----------------------------------------------------------------------------
(* The completion of a payload on its own: one accepted file is waiting    *)
(* for the generator, which may answer any object made of the fields       *)
(* below, each present or not.                                             *)

PayloadTitles == {<<>>, <<" ">>, <<"T">>}
PayloadTexts == {<<>>, <<"b">>}
PayloadStatuses == {"Open", "Closed", "Done"}
PayloadPriorities == {"Low", "Medium", "High", "Urgent"}

\* a property that is absent, or present with one of the values
Maybe(values) == {<<FALSE, 0>>} \cup {<<TRUE, v>> : v \in values}

Put(o, name, m) ==
    IF m[1] THEN [[o EXCEPT ![name] = m[2]] EXCEPT !.has = @ \cup {name}] ELSE o

\* the id, the order and the createdAt of a payload that brings its own
PutStamps(o, m) ==
    IF m[1]
    THEN [o EXCEPT !.has = @ \cup {"id", "order", "createdAt"},
                   !.id = PFull.id, !.order = PFull.order,
                   !.createdAt = PFull.createdAt]
    ELSE o

CompletionPayloads ==
    {PutStamps(
       Put(Put(Put(Put(Put(Put(NoFields, "title", t), "text", x), "status", st),
                   "priority", pr), "isPrivate", ip), "dueDate", d), c) :
        t \in Maybe(PayloadTitles), x \in Maybe(PayloadTexts),
        st \in Maybe(PayloadStatuses), pr \in Maybe(PayloadPriorities),
        ip \in Maybe(BOOLEAN), d \in Maybe({"due"}), c \in Maybe({0})}

CompletionResponses ==
    GenerateResponses \cup
    {TextResponse(<<JsonObject(o)>>) : o \in CompletionPayloads}

\* the accepted files: a base name with a separator between letters and two
\* that are separators only; contents of two and of six words, one of them
\* after a line break, one with a run of whitespace between its words
CompletionFiles ==
    {[baseName |-> b, content |-> c, date |-> "d1", readable |-> TRUE] :
        b \in {<<"m", "-", "n">>, <<"_">>, <<"-", "_">>},
        c \in {<<"h", "i", " ", "x">>,
               <<"a", "\t", "\n", "b">>,
               <<"a", " ", "b", " ", "c", " ", "d", " ", "e", " ", "f">>,
               <<"\n", "a", " ", "b", " ", "c", " ", "d", " ", "e", " ", "f">>}}

CompletionInit ==
    /\ pc = "generate"
    /\ exitCode = 0 - 1
    /\ outFile = AbsentFile
    /\ priorFile = AbsentFile
    /\ allNotes = <<>>
    /\ loadedCount = 0
    /\ nextId \in {FirstId, FirstId + 1}
    /\ initialNextId = nextId
    /\ currentOrder = FirstOrder
    /\ fileCount = 1
    /\ processedCount = 1
    /\ addedCount = 0
    /\ file \in CompletionFiles
    /\ attempt = 0
    /\ requests = 1
    /\ classificationResult = [has |-> TRUE, s |-> <<"Y", "e", "s">>]
    /\ response2 = NullResponse
    /\ outcome = "none"
    /\ before = [nextId |-> nextId, currentOrder |-> FirstOrder,
                 addedCount |-> 0, count |-> 0]
    /\ saveStatus = "none"
    /\ writes = 0
    /\ folder = "found"
    /\ failure = "none"

CompletionAnswers == GenerateAnswersFrom(CompletionResponses)

CompletionSpec == CompletionInit /\ [][CompletionAnswers]_vars

\* the objects of the payload in the generator's answer: the object itself,
\* or the elements of the array
PayloadOf(q) == SelectSeq(q, LAMBDA t : t.t = "json")[1].items

IsBlankTitle(t) == \A j \in 1..Len(t) : t[j] \in {" ", "\n", "\t"}

\* the note has the value the payload object p had for the field, or the
\* default d when p had none
KeptOrDefault(note, p, name, d) ==
    /\ name \in note.has
    /\ note[name] = IF name \in p.has THEN p[name] ELSE d

(* C19: completion only fills gaps: text, status, priority and isPrivate   *)
(* get the source text, Open, Medium and false only when the payload has   *)
(* no such field; every other field the payload carries, a title that is   *)
(* not blank included, keeps its value in the appended note; and a payload *)
(* that parsed is never rejected.                                          *)
C19_OnlyFillsGaps ==
    /\ (GenerationAnswered /\ response2.k = "text" /\ UsableText(response2.s))
          => outcome = "added"
    /\ outcome = "added" =>
          /\ Len(NewNotes) = Len(PayloadOf(response2.s))
          /\ \A i \in 1..Len(NewNotes) :
                LET note == NewNotes[i]
                    p == PayloadOf(response2.s)[i]
                IN  /\ KeptOrDefault(note, p, "text", file.content)
                    /\ KeptOrDefault(note, p, "status", "Open")
                    /\ KeptOrDefault(note, p, "priority", "Medium")
                    /\ KeptOrDefault(note, p, "isPrivate", FALSE)
                    /\ ("title" \in p.has /\ ~IsBlankTitle(p.title))
                          => note.title = p.title
                    /\ "dueDate" \in p.has
                          => ("dueDate" \in note.has /\ note.dueDate = p.dueDate)

-----------------------------------------------------------------------------
(* C20: every note appended in the run has a status of Open or Closed and  *)
(* a priority of Low, Medium or High, whatever the generator returned.     *)
C20_StatusAndPriorityInEnum ==
    \A i \in 1..Len(AddedPart) :
        /\ "status" \in AddedPart[i].has
        /\ AddedPart[i].status \in {"Open", "Closed"}
        /\ "priority" \in AddedPart[i].has
        /\ AddedPart[i].priority \in {"Low", "Medium", "High"}

-----------------------------------------------------------------------------
IsSpaceChar(c) == c \in {" ", "\n", "\t"}

\* the words of a text: its maximal runs of characters that are no whitespace
RECURSIVE WordsOf(_)
WordsOf(s) ==
    IF s = <<>> THEN <<>>
    ELSE IF IsSpaceChar(Head(s)) THEN WordsOf(Tail(s))
    ELSE LET n == CHOOSE k \in 1..Len(s) :
                      /\ \A j \in 1..k : ~IsSpaceChar(s[j])
                      /\ k = Len(s) \/ IsSpaceChar(s[k + 1])
         IN  <<SubSeq(s, 1, n)>> \o WordsOf(SubSeq(s, n + 1, Len(s)))

\* the words with one space between two of them
RECURSIVE Spaced(_)
Spaced(q) ==
    IF q = <<>> THEN <<>>
    ELSE IF Len(q) = 1 THEN q[1]
    ELSE q[1] \o <<" ">> \o Spaced(Tail(q))

\* the naming hint with every hyphen and underscore turned into a space
HintOf(b) == [i \in 1..Len(b) |-> IF b[i] \in {"-", "_"} THEN " " ELSE b[i]]

FirstFiveWords(s) ==
    LET w == WordsOf(s) IN Spaced(SubSeq(w, 1, IF Len(w) < 5 THEN Len(w) ELSE 5))

\* the title the specification gives the note of payload object p, file f
\* and identifier id
TitleBySpec(p, f, id) ==
    IF "title" \in p.has /\ ~IsBlankTitle(p.title) THEN p.title
    ELSE IF ~IsBlankTitle(HintOf(f.baseName)) THEN HintOf(f.baseName)
    ELSE IF ~IsBlankTitle(FirstFiveWords(f.content)) THEN FirstFiveWords(f.content)
    ELSE <<"N", "o", "t", "e", " ">> \o Digits(id)

(* C21: every note appended has a title that is not blank: the payload's   *)
(* title when that is not blank, else the naming hint with hyphens and     *)
(* underscores replaced by spaces when that is not blank, else the first   *)
(* five words of the source text joined by single spaces, else a           *)
(* placeholder made of the id.                                             *)
C21_TitleByPriority ==
    outcome = "added" =>
        \A i \in 1..Len(NewNotes) :
            /\ "title" \in NewNotes[i].has
            /\ ~IsBlankTitle(NewNotes[i].title)
            /\ NewNotes[i].title =
                  TitleBySpec(PayloadOf(response2.s)[i], file, before.nextId)

-----------------------------------------------------------------------------
(* C22: at every point of the run currentOrder equals the added count,     *)
(* nextId minus currentOrder equals the initial nextId, the collection     *)
(* holds the loaded notes plus one note for each input counted as added,   *)
(* an input that is not added appends nothing, and the processed count is  *)
(* the number of inputs visited.                                           *)
C22_CountersAgree ==
    pc \in {"loop", "classify", "generate", "done"} =>
        /\ currentOrder = addedCount
        /\ nextId - currentOrder = initialNextId
        /\ Len(allNotes) = loadedCount + addedCount
        /\ processedCount > 0 =>
              Len(NewNotes) = (IF outcome = "added" THEN 1 ELSE 0)
        /\ outcome = "added" =>
              /\ nextId = before.nextId + 1
              /\ currentOrder = before.currentOrder + 1
              /\ addedCount = before.addedCount + 1
        /\ (outcome # "added" /\ processedCount > 0) => CountersAsBefore
        /\ processedCount <= fileCount
        /\ pc \in {"classify", "generate"} => processedCount >= 1
        /\ pc = "done" => processedCount = fileCount

====
